---- MODULE Spec2Model ----
(***************************************************************************)
(* A model of src/index.tsx: the slideshow generator.  One page load is    *)
(* one behaviour.  The page runs on a single-threaded event loop, so an    *)
(* action is the code that runs from one macrotask callback (a user event, *)
(* an IndexedDB completion, a network result) up to the next suspension.   *)
(*                                                                         *)
(* marked.parse is called without the async option and returns a string;   *)
(* `await <string>` resumes in the same microtask checkpoint, before any   *)
(* event handler or I/O callback can run, so it is no interleaving point.  *)
(* The real suspension points are the IndexedDB round trips, the model     *)
(* request, the arrival of each stream chunk and the fetch of data URLs.   *)
(***************************************************************************)
EXTENDS Integers, Sequences, FiniteSets, TLC

\* ---------------------------------------------------------------- bounds
MaxGen == 2        \* generate() calls per page load under Spec
MaxParts == 2      \* stream parts consumed per page load under Spec
MaxSegParts == 4   \* stream parts of the single generation under SpecSeg
MaxSelects == 1    \* clicks on the theme, ratio and color selectors per page load
MaxLiveParts == 1  \* stream parts of the single generation under SpecLive

\* ---------------------------------------------------------------- values
\* Strings are sequences of tokens; "" is <<>> (falsy in JavaScript).
Gens == 1 .. MaxGen           \* activation records of generate(), in call order
Restorer == 0                 \* the loadSlideshowFromStorage() call of line 868

Themes == {"cats", "robots"}
Ratios == {"1-1", "9-16"}
ColorStyles == {"bw", "muted"}

InputTexts == {<<" ", "q">>}        \* what the user types into #input
Examples == {<<"e">>}                \* textContent of the #examples items

NoImg == <<>>                        \* img = null / no <img> in the slide
\* A part of a chunk: part.text and part.inlineData.data (<<>> when absent).
TextPart(t) == [text |-> t, data |-> <<>>]
ImagePart(d) == [text |-> <<>>, data |-> d]
EmptyPart == [text |-> <<>>, data |-> <<>>]
Parts == {TextPart(<<"a">>), TextPart(<<"b">>), ImagePart(<<"i1">>), ImagePart(<<"i2">>),
          EmptyPart}

VARIABLES
    store,               \* the slot SLIDESHOW_KEY of the object store: <<>> or <<record>>
    dbCreated,           \* the database DB_NAME and its object store exist
    dbq,                 \* IndexedDB requests not yet completed, in the order issued
    selectedTheme, selectedRatio, selectedColorStyle,
    userInput,           \* [value, disabled] of #input
    generateBtn,         \* [disabled] of #generate-btn
    slideshow,           \* the .slide children of #slideshow, in document order
    error,               \* [hidden, innerHTML] of #error
    modelOutput,         \* the .user-turn children of #output (their innerHTML)
    actionsContainer,    \* [hidden] of #actions-container
    load,                \* position of loadSlideshowFromStorage()
    pc,                  \* position of each generate() activation
    message,             \* generate's parameter
    begun,               \* history: the settings selected as it created its session
    text, img,           \* generate's locals (lines 231-232)
    slides,              \* saveSlideshowToStorage's slide snapshot awaiting its blobs
    dataToSave,          \* the value handed to saveDataToDB
    caught,              \* history: generate's catch block ran
    consumed,            \* history: the parts each generate() has consumed
    emitted,             \* history: the (text, image) arguments of its addSlide calls
    clears,              \* history: clearDataFromDB calls made by the restore
    caughtIn,            \* history: what its catch block caught ("none", "get", "decode")
    selects,             \* history: clicks on the selectors
    lim                  \* the bounds of this behaviour: [gens, parts, selects]

vars == <<store, dbCreated, dbq, selectedTheme, selectedRatio, selectedColorStyle, userInput,
          generateBtn, slideshow, error, modelOutput, actionsContainer, load, pc, message,
          begun, text, img, slides, dataToSave, caught, consumed, emitted, clears, caughtIn,
          selects, lim>>

settingsVars == <<selectedTheme, selectedRatio, selectedColorStyle>>
genLocals == <<message, begun, text, img, slides, dataToSave, caught, consumed, emitted>>

\* ------------------------------------------------------- pure functions
IsSpace(c) == c = " "

RECURSIVE TrimStart(_)
TrimStart(s) == IF s # <<>> /\ IsSpace(Head(s)) THEN TrimStart(Tail(s)) ELSE s

RECURSIVE TrimEnd(_)
TrimEnd(s) ==
    IF s # <<>> /\ IsSpace(s[Len(s)]) THEN TrimEnd(SubSeq(s, 1, Len(s) - 1)) ELSE s

\* String.prototype.trim
Trim(s) == TrimEnd(TrimStart(s))

\* marked.parse on plain text: a paragraph, and nothing for the empty string.
Marked(t) == IF t = <<>> THEN <<>> ELSE <<"<p>">> \o t \o <<"</p>\n">>

\* img.src = `data:image/png;base64,` + data.data (line 244)
DataUrl(d) == <<"data:image/png;base64,">> \o d

\* dataUrlToBlob: the fetched body of a data: URL (or of an object URL).
dataUrlToBlob_typeOnly(src) == <<"image/png">>

dataUrlToBlob(src) == <<"image/png">> \o Tail(src)

\* URL.createObjectURL(blob) (line 743)
ObjectUrl(blob) == <<"blob:">> \o Tail(blob)

\* The question slide generate() builds (lines 210-217).
QuestionSlide(m) ==
    [isQuestion |-> TRUE,
     caption |-> <<"You asked:<br><strong>">> \o m \o <<"</strong>">>,
     img |-> NoImg]

\* The slide addSlide(text, image) appends (lines 155-164).
addSlide(t, image) == [isQuestion |-> FALSE, caption |-> Marked(t), img |-> image]

\* One part of a chunk applied to generate's locals (lines 237-251).
ConsumePart_textReplaces(acc, part) ==
    IF part.text # <<>>
    THEN [text |-> part.text, img |-> acc.img]
    ELSE IF part.data # <<>>
         THEN [text |-> acc.text, img |-> DataUrl(part.data)]
         ELSE acc

ConsumePart_dropsPending(acc, part) ==
    IF part.text # <<>>
    THEN [text |-> acc.text \o part.text, img |-> acc.img]
    ELSE IF part.data # <<>>
         THEN [text |-> acc.text, img |-> DataUrl(part.data)]
         ELSE [text |-> <<>>, img |-> NoImg]

ConsumePart(acc, part) ==
    IF part.text # <<>>
    THEN [text |-> acc.text \o part.text, img |-> acc.img]
    ELSE IF part.data # <<>>
         THEN [text |-> acc.text, img |-> DataUrl(part.data)]
         ELSE acc

\* if (text && img) (line 252)
PairComplete_never(acc) == FALSE

PairComplete(acc) == acc.text # <<>> /\ acc.img # NoImg

\* The addSlide calls of the end-of-stream flush (lines 260-263).
FlushSlides_captionToo(acc) ==
    IF acc.img # NoImg \/ acc.text # <<>> THEN <<[text |-> acc.text, img |-> acc.img]>>
    ELSE <<>>

FlushSlides_always(acc) == <<[text |-> acc.text, img |-> acc.img]>>

FlushSlides(acc) ==
    IF acc.img # NoImg THEN <<[text |-> acc.text, img |-> acc.img]>> ELSE <<>>

\* slideshow.children.length > 1 (line 264); saveSlideshowToStorage returns early on
\* the negation of the same test, slideElements.length <= 1 (line 634).
isPersistable_nonEmpty(slideElements) == Len(slideElements) >= 1

isPersistable(slideElements) == Len(slideElements) > 1

\* The per-slide reads of saveSlideshowToStorage (lines 639-641), all made before the
\* first await of the map callback.
SlideSnapshot(slideElements) ==
    [i \in 1 .. Len(slideElements) |->
        [isQuestion |-> slideElements[i].isQuestion,
         text |-> slideElements[i].caption,
         imageSrc |-> slideElements[i].img]]

\* Lines 642-653: blobs resolved, record assembled from the settings selected now.
SavedSlideshow(question, snapshot, theme, ratio, colorStyle) ==
    [question |-> question, theme |-> theme, ratio |-> ratio, colorStyle |-> colorStyle,
     slides |-> [i \in 1 .. Len(snapshot) |->
                    [isQuestion |-> snapshot[i].isQuestion,
                     text |-> snapshot[i].text,
                     imageBlob |-> IF snapshot[i].imageSrc # NoImg
                                   THEN dataUrlToBlob(snapshot[i].imageSrc)
                                   ELSE <<>>]],
     fault |-> "none"]

HasImage(snapshot) == \E i \in 1 .. Len(snapshot) : snapshot[i].imageSrc # NoImg

\* ------------------------------------------------- stored records, decode
\* A record of an earlier page load.  fault names the property of the stored object
\* that does not have the type loadSlideshowFromStorage expects ("none" for every
\* record saveSlideshowToStorage writes, "falsy" for a stored 0, "", null or false,
\* which line 696 takes for no record); a blob of <<"junk">> is a truthy value that
\* is no Blob.
PriorSlides ==
    SlideSnapshot(<<QuestionSlide(<<"p">>), addSlide(<<"a">>, DataUrl(<<"i1">>))>>)

PriorRecord == SavedSlideshow(<<"p">>, PriorSlides, "robots", "9-16", "muted")

JunkBlob == <<"junk">>

InitStores ==
    {<<>>,
     <<PriorRecord>>,
     <<[PriorRecord EXCEPT !.colorStyle = ""]>>,
     <<[PriorRecord EXCEPT !.fault = "falsy"]>>,
     <<[PriorRecord EXCEPT !.fault = "question"]>>,
     <<[PriorRecord EXCEPT !.fault = "slides"]>>,
     <<[PriorRecord EXCEPT !.slides[2].imageBlob = JunkBlob]>>}

IsBlob(b) == b # <<>> /\ Head(b) = "image/png"

\* The slide element the restore loop builds from one stored slide (lines 723-751).
\* URL.createObjectURL throws on a value that is no Blob, after the slide was appended
\* with an <img> that has no src.
RestoredSlide(sd) ==
    [isQuestion |-> sd.isQuestion,
     caption |-> sd.text,
     img |-> IF IsBlob(sd.imageBlob) THEN ObjectUrl(sd.imageBlob) ELSE NoImg]

Throws(sd) == sd.imageBlob # <<>> /\ ~IsBlob(sd.imageBlob)

\* Index of the first stored slide the loop throws on, 0 when it runs to the end.
FirstThrow(sl) ==
    IF \E i \in 1 .. Len(sl) : Throws(sl[i])
    THEN CHOOSE i \in 1 .. Len(sl) : Throws(sl[i]) /\ \A j \in 1 .. (i - 1) : ~Throws(sl[j])
    ELSE 0

\* The slides in #slideshow when the loop ends or throws (lines 720-752).
Rebuilt(sl) ==
    LET n == IF FirstThrow(sl) = 0 THEN Len(sl) ELSE FirstThrow(sl)
    IN  [i \in 1 .. n |-> RestoredSlide(sl[i])]

\* ------------------------------------------------------------- IndexedDB
\* The database as the helpers see it: whether it exists, and the slot SLIDESHOW_KEY.
Database(exists, slot) == [exists |-> exists, slot |-> slot]

\* openDB (59-71): opening creates the database, and onupgradeneeded its object
\* store, when they do not exist; a fresh object store has nothing in the slot.
openDB_noUpgrade(db) == db

openDB(db) == [exists |-> TRUE, slot |-> IF db.exists THEN db.slot ELSE <<>>]

\* saveDataToDB (73-82), completed: store.put(value, key).
saveDataToDB(db, value) == [openDB(db) EXCEPT !.slot = <<value>>]

\* loadDataFromDB (84-93), completed: the database after store.get(key); the value
\* it resolves with is what the slot holds.
loadDataFromDB(db) == openDB(db)

\* clearDataFromDB (95-104), completed: store.delete(key).
clearDataFromDB(db) == [openDB(db) EXCEPT !.slot = <<>>]

\* A helper that rejects: indexedDB.open failed, or it succeeded and the
\* transaction failed, leaving the slot as it was.
Rejected(db) == {db, openDB(db)}

\* ------------------------------------------------------------- the page
RECURSIVE SumLen(_, _)
SumLen(f, n) == IF n = 0 THEN 0 ELSE Len(f[n]) + SumLen(f, n - 1)

PartsConsumed == SumLen(consumed, MaxGen)

InitPage ==
    /\ selectedTheme = "cats"
    /\ selectedRatio = "1-1"
    /\ selectedColorStyle = "bw"
    /\ userInput = [value |-> <<>>, disabled |-> FALSE]
    /\ generateBtn = [disabled |-> FALSE]
    /\ slideshow = <<>>
    /\ error = [hidden |-> TRUE, innerHTML |-> <<>>]
    /\ modelOutput = <<>>
    /\ actionsContainer = [hidden |-> TRUE]
    /\ pc = [g \in Gens |-> "idle"]
    /\ message = [g \in Gens |-> <<>>]
    /\ begun = [g \in Gens |-> <<>>]
    /\ text = [g \in Gens |-> <<>>]
    /\ img = [g \in Gens |-> NoImg]
    /\ slides = [g \in Gens |-> <<>>]
    /\ dataToSave = [g \in Gens |-> <<>>]
    /\ caught = [g \in Gens |-> FALSE]
    /\ consumed = [g \in Gens |-> <<>>]
    /\ emitted = [g \in Gens |-> <<>>]
    /\ clears = 0
    /\ caughtIn = "none"
    /\ selects = 0

\* The page as the module's top level leaves it: line 868 has called
\* loadSlideshowFromStorage(), which is suspended in loadDataFromDB.
Init ==
    /\ InitPage
    /\ store \in InitStores
    /\ dbCreated \in BOOLEAN
    /\ store # <<>> => dbCreated
    /\ load = "loading"
    /\ dbq = <<Restorer>>
    /\ lim = [gens |-> MaxGen, parts |-> MaxParts, selects |-> MaxSelects]

\* The same page, with a single generate() call in the page load.
InitOne ==
    /\ InitPage
    /\ store \in InitStores
    /\ dbCreated \in BOOLEAN
    /\ store # <<>> => dbCreated
    /\ load = "loading"
    /\ dbq = <<Restorer>>
    /\ lim = [gens |-> 1, parts |-> MaxParts, selects |-> MaxSelects]

\* The page once a restore from an empty store has finished, one generation allowed.
InitSeg ==
    /\ InitPage
    /\ store = <<>>
    /\ dbCreated = TRUE
    /\ load = "rdone"
    /\ dbq = <<>>
    /\ lim = [gens |-> 1, parts |-> MaxSegParts, selects |-> MaxSelects]

\* ------------------------------------------------------------ user input
\* The user edits #input (a disabled textarea takes no input).
Type(v) ==
    /\ ~userInput.disabled
    /\ userInput' = [userInput EXCEPT !.value = v]
    /\ UNCHANGED <<store, dbCreated, dbq, settingsVars, generateBtn, slideshow, error,
                   modelOutput, actionsContainer, load, pc, genLocals, clears, caughtIn,
                   selects, lim>>

\* The next unused activation of generate().
Fresh(g) ==
    /\ g <= lim.gens
    /\ pc[g] = "idle"
    /\ \A h \in Gens : h < g => pc[h] # "idle"

\* generate(message) up to its first await (line 191): clearDataFromDB is issued.
generate_noClear(g, m) ==
    /\ Fresh(g)
    /\ pc' = [pc EXCEPT ![g] = "request"]
    /\ message' = [message EXCEPT ![g] = m]
    /\ UNCHANGED <<store, dbCreated, dbq, settingsVars, userInput, generateBtn,
                   slideshow, error, modelOutput, actionsContainer, load, begun, text,
                   img, slides, dataToSave, caught, consumed, emitted, clears, caughtIn,
                   selects, lim>>

generate(g, m) ==
    /\ Fresh(g)
    /\ pc' = [pc EXCEPT ![g] = "clearing"]
    /\ message' = [message EXCEPT ![g] = m]
    /\ dbq' = Append(dbq, g)
    /\ UNCHANGED <<store, dbCreated, settingsVars, userInput, generateBtn, slideshow,
                   error, modelOutput, actionsContainer, load, begun, text, img, slides,
                   dataToSave, caught, consumed, emitted, clears, caughtIn, selects,
                   lim>>

\* handleGeneration (lines 799-804).
handleGeneration(g) ==
    /\ Trim(userInput.value) # <<>>
    /\ generate(g, Trim(userInput.value))

\* keydown Enter in #input (lines 806-811); a disabled textarea gets no key events.
KeydownEnter(g) == ~userInput.disabled /\ handleGeneration(g)

\* click on #generate-btn (line 813); a disabled button gets no click events.
ClickGenerate(g) == ~generateBtn.disabled /\ handleGeneration(g)

\* click on an example (lines 815-820): nothing disables the list items.
ClickExample(g, m) == generate(g, m)

\* The selectors (lines 835-859).
SelectTheme(v) ==
    /\ selects < lim.selects
    /\ selects' = selects + 1
    /\ selectedTheme' = v
    /\ UNCHANGED <<store, dbCreated, dbq, selectedRatio, selectedColorStyle, userInput,
                   generateBtn, slideshow, error, modelOutput, actionsContainer, load,
                   pc, genLocals, clears, caughtIn, lim>>

SelectRatio(v) ==
    /\ selects < lim.selects
    /\ selects' = selects + 1
    /\ selectedRatio' = v
    /\ UNCHANGED <<store, dbCreated, dbq, selectedTheme, selectedColorStyle, userInput,
                   generateBtn, slideshow, error, modelOutput, actionsContainer, load,
                   pc, genLocals, clears, caughtIn, lim>>

SelectColor(v) ==
    /\ selects < lim.selects
    /\ selects' = selects + 1
    /\ selectedColorStyle' = v
    /\ UNCHANGED <<store, dbCreated, dbq, selectedTheme, selectedRatio, userInput,
                   generateBtn, slideshow, error, modelOutput, actionsContainer, load,
                   pc, genLocals, clears, caughtIn, lim>>

\* ------------------------------------------------------------- IndexedDB
\* Requests on one database complete in the order they were issued.
Turn(p) == dbq # <<>> /\ Head(dbq) = p

\* The database now, and after a helper has completed or rejected.
DB == Database(dbCreated, store)

Becomes(db) == store' = db.slot /\ dbCreated' = db.exists

\* ------------------------------------------------------------- generate
\* Lines 273-275.
InputEnabled ==
    /\ userInput' = [userInput EXCEPT !.disabled = FALSE]
    /\ generateBtn' = [disabled |-> FALSE]

\* generate() returns: its locals are gone.
Return(g) ==
    /\ pc' = [pc EXCEPT ![g] = "done"]
    /\ text' = [text EXCEPT ![g] = <<>>]
    /\ img' = [img EXCEPT ![g] = NoImg]
    /\ slides' = [slides EXCEPT ![g] = <<>>]
    /\ dataToSave' = [dataToSave EXCEPT ![g] = <<>>]
    /\ begun' = [begun EXCEPT ![g] = <<>>]

\* clearDataFromDB resolves; generate runs lines 193-221 and awaits the model request.
ClearDone_actionsKept(g) ==
    /\ pc[g] = "clearing"
    /\ Turn(g)
    /\ dbq' = Tail(dbq)
    /\ Becomes(clearDataFromDB(DB))
    /\ userInput' = [value |-> <<>>, disabled |-> TRUE]
    /\ generateBtn' = [disabled |-> TRUE]
    /\ slideshow' = <<QuestionSlide(message[g])>>
    /\ error' = [hidden |-> TRUE, innerHTML |-> <<>>]
    /\ modelOutput' = <<Marked(message[g])>>
    /\ actionsContainer' = actionsContainer
    /\ pc' = [pc EXCEPT ![g] = "request"]
    /\ begun' = [begun EXCEPT ![g] = <<[theme |-> selectedTheme, ratio |-> selectedRatio,
                                         colorStyle |-> selectedColorStyle]>>]
    /\ UNCHANGED <<settingsVars, load, message, text, img, slides, dataToSave, caught,
                   consumed, emitted, clears, caughtIn, selects, lim>>

ClearDone_slidesKept(g) ==
    /\ pc[g] = "clearing"
    /\ Turn(g)
    /\ dbq' = Tail(dbq)
    /\ Becomes(clearDataFromDB(DB))
    /\ userInput' = [value |-> <<>>, disabled |-> TRUE]
    /\ generateBtn' = [disabled |-> TRUE]
    /\ slideshow' = Append(slideshow, QuestionSlide(message[g]))
    /\ error' = [hidden |-> TRUE, innerHTML |-> <<>>]
    /\ modelOutput' = <<Marked(message[g])>>
    /\ actionsContainer' = [hidden |-> TRUE]
    /\ pc' = [pc EXCEPT ![g] = "request"]
    /\ begun' = [begun EXCEPT ![g] = <<[theme |-> selectedTheme, ratio |-> selectedRatio,
                                         colorStyle |-> selectedColorStyle]>>]
    /\ UNCHANGED <<settingsVars, load, message, text, img, slides, dataToSave, caught,
                   consumed, emitted, clears, caughtIn, selects, lim>>

ClearDone(g) ==
    /\ pc[g] = "clearing"
    /\ Turn(g)
    /\ dbq' = Tail(dbq)
    /\ Becomes(clearDataFromDB(DB))
    /\ userInput' = [value |-> <<>>, disabled |-> TRUE]
    /\ generateBtn' = [disabled |-> TRUE]
    /\ slideshow' = <<QuestionSlide(message[g])>>
    /\ error' = [hidden |-> TRUE, innerHTML |-> <<>>]
    /\ modelOutput' = <<Marked(message[g])>>
    /\ actionsContainer' = [hidden |-> TRUE]
    /\ pc' = [pc EXCEPT ![g] = "request"]
    /\ begun' = [begun EXCEPT ![g] = <<[theme |-> selectedTheme, ratio |-> selectedRatio,
                                         colorStyle |-> selectedColorStyle]>>]
    /\ UNCHANGED <<settingsVars, load, message, text, img, slides, dataToSave, caught,
                   consumed, emitted, clears, caughtIn, selects, lim>>

\* clearDataFromDB rejects (open or transaction error): line 191 is outside the try,
\* so generate() rejects there and runs nothing else.
ClearFail(g) ==
    /\ pc[g] = "clearing"
    /\ Turn(g)
    /\ dbq' = Tail(dbq)
    /\ pc' = [pc EXCEPT ![g] = "rejected"]
    /\ \E db \in Rejected(DB) : Becomes(db)
    /\ UNCHANGED <<settingsVars, userInput, generateBtn, slideshow, error, modelOutput,
                   actionsContainer, load, genLocals, clears, caughtIn, selects, lim>>

\* generateContentStream resolves (line 221); lines 231-232.
StreamOpen(g) ==
    /\ pc[g] = "request"
    /\ pc' = [pc EXCEPT ![g] = "stream"]
    /\ text' = [text EXCEPT ![g] = <<>>]
    /\ img' = [img EXCEPT ![g] = NoImg]
    /\ UNCHANGED <<store, dbCreated, dbq, settingsVars, userInput, generateBtn,
                   slideshow, error, modelOutput, actionsContainer, load, message, begun,
                   slides, dataToSave, caught, consumed, emitted, clears, caughtIn,
                   selects, lim>>

\* The request or the stream rejects, or a chunk arrives whose candidates or whose
\* candidate's content is undefined, on which lines 235-236 throw: the catch block
\* (lines 268-272), then 273-275.
StreamFail_inputStaysDisabled(g) ==
    /\ pc[g] \in {"request", "stream"}
    /\ error' = [hidden |-> FALSE, innerHTML |-> <<"Something went wrong: ", "e">>]
    /\ caught' = [caught EXCEPT ![g] = TRUE]
    /\ Return(g)
    /\ UNCHANGED <<store, dbCreated, dbq, settingsVars, userInput, generateBtn,
                   slideshow, modelOutput, actionsContainer, load, message, consumed,
                   emitted, clears, caughtIn, selects, lim>>

StreamFail(g) ==
    /\ pc[g] \in {"request", "stream"}
    /\ error' = [hidden |-> FALSE, innerHTML |-> <<"Something went wrong: ", "e">>]
    /\ caught' = [caught EXCEPT ![g] = TRUE]
    /\ InputEnabled
    /\ Return(g)
    /\ UNCHANGED <<store, dbCreated, dbq, settingsVars, slideshow, modelOutput,
                   actionsContainer, load, message, consumed, emitted, clears, caughtIn,
                   selects, lim>>

\* One part arrives and is consumed (lines 234-257).
StreamPart_savesEachSlide(g, part) ==
    /\ pc[g] = "stream"
    /\ PartsConsumed < lim.parts
    /\ LET acc == ConsumePart([text |-> text[g], img |-> img[g]], part)
       IN  /\ consumed' = [consumed EXCEPT ![g] = Append(@, part)]
           /\ IF PairComplete(acc)
              THEN /\ slideshow' = Append(slideshow, addSlide(acc.text, acc.img))
                   /\ slides' = [slides EXCEPT ![g] = SlideSnapshot(slideshow')]
                   /\ pc' = [pc EXCEPT ![g] = "encoding"]
                   /\ emitted' = [emitted EXCEPT ![g] = Append(@, acc)]
                   /\ text' = [text EXCEPT ![g] = <<>>]
                   /\ img' = [img EXCEPT ![g] = NoImg]
              ELSE /\ text' = [text EXCEPT ![g] = acc.text]
                   /\ img' = [img EXCEPT ![g] = acc.img]
                   /\ UNCHANGED <<slideshow, emitted, slides, pc>>
    /\ UNCHANGED <<store, dbCreated, dbq, settingsVars, userInput, generateBtn, error,
                   modelOutput, actionsContainer, load, message, begun, dataToSave,
                   caught, clears, caughtIn, selects, lim>>

StreamPart(g, part) ==
    /\ pc[g] = "stream"
    /\ PartsConsumed < lim.parts
    /\ LET acc == ConsumePart([text |-> text[g], img |-> img[g]], part)
       IN  /\ consumed' = [consumed EXCEPT ![g] = Append(@, part)]
           /\ IF PairComplete(acc)
              THEN /\ slideshow' = Append(slideshow, addSlide(acc.text, acc.img))
                   /\ emitted' = [emitted EXCEPT ![g] = Append(@, acc)]
                   /\ text' = [text EXCEPT ![g] = <<>>]
                   /\ img' = [img EXCEPT ![g] = NoImg]
              ELSE /\ text' = [text EXCEPT ![g] = acc.text]
                   /\ img' = [img EXCEPT ![g] = acc.img]
                   /\ UNCHANGED <<slideshow, emitted>>
    /\ UNCHANGED <<store, dbCreated, dbq, settingsVars, userInput, generateBtn, error,
                   modelOutput, actionsContainer, load, pc, message, begun, slides,
                   dataToSave, caught, clears, caughtIn, selects, lim>>

\* The stream ends: the flush (260-263), the test of line 264 and
\* saveSlideshowToStorage up to its first real suspension (629-645, or 655 when no
\* slide has an image to fetch).
StreamEnd(g) ==
    /\ pc[g] = "stream"
    /\ LET flush == FlushSlides([text |-> text[g], img |-> img[g]])
           dom == slideshow \o [i \in 1 .. Len(flush) |-> addSlide(flush[i].text, flush[i].img)]
           snapshot == SlideSnapshot(dom)
       IN  /\ slideshow' = dom
           /\ emitted' = [emitted EXCEPT ![g] = @ \o flush]
           /\ IF isPersistable(dom)
              THEN /\ actionsContainer' = [hidden |-> FALSE]
                   /\ IF ~isPersistable(dom)
                      THEN /\ InputEnabled
                           /\ Return(g)
                           /\ UNCHANGED dbq
                      ELSE IF HasImage(snapshot)
                      THEN /\ slides' = [slides EXCEPT ![g] = snapshot]
                           /\ pc' = [pc EXCEPT ![g] = "encoding"]
                           /\ text' = [text EXCEPT ![g] = IF flush # <<>> THEN <<>> ELSE @]
                           /\ UNCHANGED <<dbq, img, dataToSave, userInput, generateBtn,
                                          begun>>
                      ELSE /\ dataToSave' = [dataToSave EXCEPT ![g] =
                                  <<SavedSlideshow(message[g], snapshot, selectedTheme,
                                                   selectedRatio, selectedColorStyle)>>]
                           /\ dbq' = Append(dbq, g)
                           /\ pc' = [pc EXCEPT ![g] = "putting"]
                           /\ text' = [text EXCEPT ![g] = IF flush # <<>> THEN <<>> ELSE @]
                           /\ UNCHANGED <<img, slides, userInput, generateBtn, begun>>
              ELSE /\ InputEnabled
                   /\ Return(g)
                   /\ UNCHANGED <<actionsContainer, dbq>>
    /\ UNCHANGED <<store, dbCreated, settingsVars, error, modelOutput, load, message,
                   caught, consumed, clears, caughtIn, selects, lim>>

\* Every dataUrlToBlob resolved: the record is assembled (647-653) and saveDataToDB
\* issued (655).
EncodeDone_notAwaited(g) ==
    /\ pc[g] = "encoding"
    /\ dbq' = Append(dbq, g)
    /\ InputEnabled
    /\ Return(g)
    /\ UNCHANGED <<store, dbCreated, settingsVars, slideshow, error, modelOutput,
                   actionsContainer, load, message, caught, consumed, emitted, clears,
                   caughtIn, selects, lim>>

EncodeDone(g) ==
    /\ pc[g] = "encoding"
    /\ dataToSave' = [dataToSave EXCEPT ![g] =
           <<SavedSlideshow(message[g], slides[g], selectedTheme, selectedRatio,
                            selectedColorStyle)>>]
    /\ dbq' = Append(dbq, g)
    /\ pc' = [pc EXCEPT ![g] = "putting"]
    /\ UNCHANGED <<store, dbCreated, settingsVars, userInput, generateBtn, slideshow,
                   error, modelOutput, actionsContainer, load, message, begun, text, img,
                   slides, caught, consumed, emitted, clears, caughtIn, selects, lim>>

\* A fetch of a data URL rejects: saveSlideshowToStorage catches (656-658) and
\* generate finishes (273-275).
EncodeFail(g) ==
    /\ pc[g] = "encoding"
    /\ InputEnabled
    /\ Return(g)
    /\ UNCHANGED <<store, dbCreated, dbq, settingsVars, slideshow, error, modelOutput,
                   actionsContainer, load, message, caught, consumed, emitted, clears,
                   caughtIn, selects, lim>>

\* saveDataToDB resolves: the record is in the store; generate finishes.
PutDone(g) ==
    /\ pc[g] = "putting"
    /\ Turn(g)
    /\ dbq' = Tail(dbq)
    /\ Becomes(saveDataToDB(DB, dataToSave[g][1]))
    /\ InputEnabled
    /\ Return(g)
    /\ UNCHANGED <<settingsVars, slideshow, error, modelOutput, actionsContainer, load,
                   message, caught, consumed, emitted, clears, caughtIn, selects, lim>>

\* saveDataToDB rejects: caught in saveSlideshowToStorage; generate finishes.
PutFail(g) ==
    /\ pc[g] = "putting"
    /\ Turn(g)
    /\ dbq' = Tail(dbq)
    /\ InputEnabled
    /\ Return(g)
    /\ \E db \in Rejected(DB) : Becomes(db)
    /\ UNCHANGED <<settingsVars, slideshow, error, modelOutput, actionsContainer, load,
                   message, caught, consumed, emitted, clears, caughtIn, selects, lim>>

\* ------------------------------------------------ loadSlideshowFromStorage
\* The catch block (757-761): clearDataFromDB is issued.
RestoreCatch(what) ==
    /\ load' = "rclearing"
    /\ clears' = clears + 1
    /\ caughtIn' = what

\* loadDataFromDB resolves; the function runs to its end or to its catch block.
LoadDone ==
    /\ load = "loading"
    /\ Turn(Restorer)
    /\ Becomes(loadDataFromDB(DB))
    /\ IF loadDataFromDB(DB).slot = <<>> \/ loadDataFromDB(DB).slot[1].fault = "falsy"
       THEN /\ load' = "rdone"
            /\ dbq' = Tail(dbq)
            /\ UNCHANGED <<settingsVars, slideshow, modelOutput, actionsContainer, clears,
                           caughtIn>>
       ELSE LET savedData == loadDataFromDB(DB).slot[1]
            IN  /\ selectedTheme' = savedData.theme
                /\ selectedRatio' = savedData.ratio
                /\ selectedColorStyle' =
                       IF savedData.colorStyle # "" THEN savedData.colorStyle ELSE "bw"
                /\ IF savedData.fault = "question"
                   THEN /\ RestoreCatch("decode")
                        /\ dbq' = Append(Tail(dbq), Restorer)
                        /\ UNCHANGED <<slideshow, modelOutput, actionsContainer>>
                   ELSE /\ modelOutput' = Append(modelOutput, Marked(savedData.question))
                        /\ IF savedData.fault = "slides"
                           THEN /\ slideshow' = <<>>
                                /\ RestoreCatch("decode")
                                /\ dbq' = Append(Tail(dbq), Restorer)
                                /\ UNCHANGED actionsContainer
                           ELSE /\ slideshow' = Rebuilt(savedData.slides)
                                /\ IF FirstThrow(savedData.slides) # 0
                                   THEN /\ RestoreCatch("decode")
                                        /\ dbq' = Append(Tail(dbq), Restorer)
                                        /\ UNCHANGED actionsContainer
                                   ELSE /\ actionsContainer' = [hidden |-> FALSE]
                                        /\ load' = "rdone"
                                        /\ dbq' = Tail(dbq)
                                        /\ UNCHANGED <<clears, caughtIn>>
    /\ UNCHANGED <<userInput, generateBtn, error, pc, genLocals, selects, lim>>

\* loadDataFromDB rejects: the catch block.
LoadFail ==
    /\ load = "loading"
    /\ Turn(Restorer)
    /\ RestoreCatch("get")
    /\ dbq' = Append(Tail(dbq), Restorer)
    /\ \E db \in Rejected(DB) : Becomes(db)
    /\ UNCHANGED <<settingsVars, userInput, generateBtn, slideshow, error, modelOutput,
                   actionsContainer, pc, genLocals, selects, lim>>

RestoreClearDone_otherKey ==
    /\ load = "rclearing"
    /\ Turn(Restorer)
    /\ dbq' = Tail(dbq)
    /\ load' = "rdone"
    /\ Becomes(openDB(DB))
    /\ UNCHANGED <<settingsVars, userInput, generateBtn, slideshow, error, modelOutput,
                   actionsContainer, pc, genLocals, clears, caughtIn, selects, lim>>

\* The catch block's clearDataFromDB resolves: the function returns.
RestoreClearDone ==
    /\ load = "rclearing"
    /\ Turn(Restorer)
    /\ dbq' = Tail(dbq)
    /\ Becomes(clearDataFromDB(DB))
    /\ load' = "rdone"
    /\ UNCHANGED <<settingsVars, userInput, generateBtn, slideshow, error, modelOutput,
                   actionsContainer, pc, genLocals, clears, caughtIn, selects, lim>>

\* The catch block's clearDataFromDB rejects: nothing catches it, and the promise of
\* the call at line 868 rejects.
RestoreClearFail ==
    /\ load = "rclearing"
    /\ Turn(Restorer)
    /\ dbq' = Tail(dbq)
    /\ load' = "rthrown"
    /\ \E db \in Rejected(DB) : Becomes(db)
    /\ UNCHANGED <<settingsVars, userInput, generateBtn, slideshow, error, modelOutput,
                   actionsContainer, pc, genLocals, clears, caughtIn, selects, lim>>

\* ------------------------------------------------------- specifications
User ==
    \/ \E v \in InputTexts : Type(v)
    \/ \E g \in Gens : KeydownEnter(g)
    \/ \E g \in Gens : ClickGenerate(g)
    \/ \E g \in Gens, m \in Examples : ClickExample(g, m)

Selectors ==
    \/ \E v \in Themes : SelectTheme(v)
    \/ \E v \in Ratios : SelectRatio(v)
    \/ \E v \in ColorStyles : SelectColor(v)

Generation ==
    \/ \E g \in Gens : ClearDone(g)
    \/ \E g \in Gens : ClearFail(g)
    \/ \E g \in Gens : StreamOpen(g)
    \/ \E g \in Gens : StreamFail(g)
    \/ \E g \in Gens, part \in Parts : StreamPart(g, part)
    \/ \E g \in Gens : StreamEnd(g)
    \/ \E g \in Gens : EncodeDone(g)
    \/ \E g \in Gens : EncodeFail(g)
    \/ \E g \in Gens : PutDone(g)
    \/ \E g \in Gens : PutFail(g)

Restore ==
    \/ LoadDone
    \/ LoadFail
    \/ RestoreClearDone
    \/ RestoreClearFail

Next == User \/ Selectors \/ Generation \/ Restore

Spec == Init /\ [][Next]_vars

\* The whole page with one generation: the restore, the selectors and a generation
\* interleaved.
SpecOne == InitOne /\ [][Next]_vars

\* One generation on a restored, empty page: the segmenter on its own.
NextSeg == User \/ Generation

SpecSeg == InitSeg /\ [][NextSeg]_vars

\* Every step of generate() but the arrival of a further part: the store operation,
\* the request, the stream or the fetches it awaits settle.
Settles(g) ==
    \/ ClearDone(g) \/ ClearFail(g)
    \/ StreamOpen(g) \/ StreamFail(g) \/ StreamEnd(g)
    \/ EncodeDone(g) \/ EncodeFail(g)
    \/ PutDone(g) \/ PutFail(g)

\* Every awaited store operation returns, and every request and stream ends or fails.
Fairness ==
    /\ WF_vars(Restore)
    /\ \A g \in Gens : WF_vars(Settles(g))

\* The page as the module's top level leaves it, with a single generate() call.
InitLive ==
    /\ InitPage
    /\ store \in InitStores
    /\ dbCreated \in BOOLEAN
    /\ store # <<>> => dbCreated
    /\ load = "loading"
    /\ dbq = <<Restorer>>
    /\ lim = [gens |-> 1, parts |-> MaxLiveParts, selects |-> MaxSelects]

\* The page with one generation, under these conditions.
SpecLive == InitLive /\ [][Next]_vars /\ Fairness

\* ================================================================ claims
\* The pairing rule as the specification states it (4.1), on a whole fragment
\* sequence: text fragments are concatenated, the last image wins, and a slide is
\* cut as soon as a caption and an image are both pending.
IsTextFragment(f) == f.text # <<>>
IsImageFragment(f) == f.text = <<>> /\ f.data # <<>>

RECURSIVE Paired(_)
Paired(fs) ==
    IF fs = <<>>
    THEN [slides |-> <<>>, caption |-> <<>>, image |-> NoImg]
    ELSE LET before == Paired(SubSeq(fs, 1, Len(fs) - 1))
             f == fs[Len(fs)]
             caption == IF IsTextFragment(f) THEN before.caption \o f.text
                        ELSE before.caption
             image == IF IsImageFragment(f) THEN DataUrl(f.data) ELSE before.image
         IN  IF caption # <<>> /\ image # NoImg
             THEN [slides |-> Append(before.slides, [text |-> caption, img |-> image]),
                   caption |-> <<>>, image |-> NoImg]
             ELSE [slides |-> before.slides, caption |-> caption, image |-> image]

\* The slide elements a generation has put on the page for its own session.
OwnSlides(g) ==
    <<QuestionSlide(message[g])>>
        \o [i \in 1 .. Len(emitted[g]) |-> addSlide(emitted[g][i].text, emitted[g][i].img)]

ExampleStream ==
    <<TextPart(<<"a">>), ImagePart(<<"i1">>), TextPart(<<"b">>), ImagePart(<<"i2">>)>>

\* C1: between fragments, the slides a generation has emitted are exactly the pairs
\* the pairing rule completes on the fragments consumed so far, in encounter order,
\* its locals hold the rule's pending caption and image, and the slides are on the
\* page behind the question slide; [Text a, Image1, Text b, Image2] gives (a, Image1)
\* then (b, Image2).
C1_PairCompletion ==
    \A g \in Gens :
        pc[g] = "stream" =>
            /\ emitted[g] = Paired(consumed[g]).slides
            /\ text[g] = Paired(consumed[g]).caption
            /\ img[g] = Paired(consumed[g]).image
            /\ slideshow = OwnSlides(g)
            /\ consumed[g] = ExampleStream =>
                   emitted[g] = <<[text |-> <<"a">>, img |-> DataUrl(<<"i1">>)],
                                  [text |-> <<"b">>, img |-> DataUrl(<<"i2">>)]>>

C1_Witness ==
    /\ pc[1] = "stream"
    /\ consumed[1] = ExampleStream
    /\ Len(emitted[1]) = 2
    /\ Len(slideshow) = 3

\* A generate() whose stream ended normally and whose flush has run.
Flushed(g) == pc[g] \in {"encoding", "putting", "done"} /\ ~caught[g]

\* C2: once the stream has ended, the slides emitted are the completed pairs followed
\* by one slide (empty caption, pending image) exactly when an image was pending; a
\* pending caption alone adds nothing, and no slide lacks an image.
C2_EndOfStreamFlush ==
    \A g \in Gens :
        Flushed(g) =>
            LET p == Paired(consumed[g])
            IN  /\ emitted[g] = p.slides \o (IF p.image # NoImg
                                             THEN <<[text |-> <<>>, img |-> p.image]>>
                                             ELSE <<>>)
                /\ Len(emitted[g]) <= Len(p.slides) + 1
                /\ \A i \in 1 .. Len(emitted[g]) : emitted[g][i].img # NoImg
                /\ consumed[g] = <<TextPart(<<"a">>)>> => emitted[g] = <<>>
                /\ consumed[g] = <<ImagePart(<<"i1">>)>> =>
                       emitted[g] = <<[text |-> <<>>, img |-> DataUrl(<<"i1">>)]>>

C2_Witness ==
    /\ Flushed(1)
    /\ consumed[1] = <<TextPart(<<"a">>), ImagePart(<<"i1">>), ImagePart(<<"i2">>)>>
    /\ emitted[1] = <<[text |-> <<"a">>, img |-> DataUrl(<<"i1">>)],
                      [text |-> <<>>, img |-> DataUrl(<<"i2">>)]>>

\* C3: no generate() has begun while an earlier one has not finished its
\* consumption loop.
C3_OneActiveStream ==
    \A g, h \in Gens : (g < h /\ pc[g] = "stream") => pc[h] = "idle"

\* A generate() whose clear has completed and that has not completed.
InFlight(g) == pc[g] \in {"request", "stream", "encoding", "putting"}

\* C4: while a generation that cleared the store has not completed, and once it has
\* failed, a crash leaves nothing for get(): the store is empty.
C4_NoSnapshotUntilSuccess ==
    \A g \in Gens : InFlight(g) => store = <<>>

\* C5: every record handed to put, and every record in the store, has more than one
\* slide.
C5_PutOnlyPersistable ==
    /\ \A g \in Gens : pc[g] = "putting" => Len(dataToSave[g][1].slides) > 1
    /\ store # <<>> => Len(store[1].slides) > 1

C5_Witness ==
    \E g \in Gens : pc[g] = "putting" /\ Len(dataToSave[g][1].slides) = 2

\* C6: the record a generation hands to put is its own session: its question, its
\* question slide, then its own answer slides in emission order.
C6_SnapshotIsOwnSession ==
    \A g \in Gens :
        pc[g] = "putting" =>
            /\ dataToSave[g][1].question = message[g]
            /\ dataToSave[g][1].slides =
                   SavedSlideshow(message[g], SlideSnapshot(OwnSlides(g)), selectedTheme,
                                  selectedRatio, selectedColorStyle).slides

\* C7: no error escapes loadSlideshowFromStorage.
C7_RestoreNeverThrows == load # "rthrown"

\* The restore ends in this step.
RestoreEnds == load \in {"loading", "rclearing"} /\ load' \in {"rdone", "rthrown"}

C9_PersistenceFailureAbsorbed == \A g \in Gens : pc[g] # "rejected"

\* C10: the step in which a generation's stream fails shows the error, re-enables
\* input and leaves the store empty, and the generation has finished without a put.
C10_StreamFailure ==
    [][\A g \in Gens :
           (~caught[g] /\ caught'[g]) =>
               /\ ~error'.hidden
               /\ ~userInput'.disabled
               /\ ~generateBtn'.disabled
               /\ pc'[g] = "done"
               /\ store' = <<>>]_vars

\* The bytes an <img> shows: the body behind its data: or blob: URL.
ImageBytes(url) == IF url = NoImg THEN <<>> ELSE Tail(url)

\* A session as the specification describes it (3): the question as displayed, the
\* three settings, and per slide its role, caption and image bytes.
SessionSlides(slideElements) ==
    [i \in 1 .. Len(slideElements) |->
        [isQuestion |-> slideElements[i].isQuestion,
         caption |-> slideElements[i].caption,
         image |-> ImageBytes(slideElements[i].img)]]

\* The session saveSlideshowToStorage(question) encodes from a slide snapshot and the
\* settings selected as it assembles the record.
EncodedSession(question, snapshot) ==
    [question |-> <<Marked(question)>>,
     theme |-> selectedTheme, ratio |-> selectedRatio, colorStyle |-> selectedColorStyle,
     slides |-> [i \in 1 .. Len(snapshot) |->
                    [isQuestion |-> snapshot[i].isQuestion,
                     caption |-> snapshot[i].text,
                     image |-> ImageBytes(snapshot[i].imageSrc)]]]

\* The session a page shows.
PageSession ==
    [question |-> modelOutput,
     theme |-> selectedTheme, ratio |-> selectedRatio, colorStyle |-> selectedColorStyle,
     slides |-> SessionSlides(slideshow)]

\* The session loadSlideshowFromStorage shows for a stored record, on a fresh page.
Decode(savedData) ==
    [question |-> <<Marked(savedData.question)>>,
     theme |-> savedData.theme, ratio |-> savedData.ratio,
     colorStyle |-> IF savedData.colorStyle # "" THEN savedData.colorStyle ELSE "bw",
     slides |-> SessionSlides(Rebuilt(savedData.slides))]

\* C11: the record every encode assembles decodes to the session that was encoded
\* (question, the three settings, and the slides with role, caption and image bytes,
\* in order); the snapshot encoded is the page's slide list; and Decode is what a
\* successful restore shows.
C11_RoundTrip ==
    [][/\ \A g \in Gens :
              /\ (pc[g] = "stream" /\ pc'[g] = "encoding") =>
                     /\ Len(slides'[g]) > 1
                     /\ EncodedSession(message[g], slides'[g]).slides =
                            SessionSlides(slideshow')
              /\ (pc[g] = "encoding" /\ pc'[g] = "putting") =>
                     Decode(dataToSave'[g][1]) = EncodedSession(message[g], slides[g])
              /\ (pc[g] = "stream" /\ pc'[g] = "putting") =>
                     Decode(dataToSave'[g][1]) =
                         EncodedSession(message[g], SlideSnapshot(slideshow'))
       /\ (load = "loading" /\ load' = "rdone" /\ store # <<>>
              /\ store[1].fault = "none") =>
              PageSession' = Decode(store[1])]_vars

\* An encoded session with one answer slide is on its way to the store after a
\* record of an earlier page load was restored.
C11_Witness ==
    /\ \E g \in Gens :
           /\ pc[g] = "putting"
           /\ Decode(dataToSave[g][1]).slides =
                  <<[isQuestion |-> TRUE,
                     caption |-> <<"You asked:<br><strong>", "e", "</strong>">>,
                     image |-> <<>>],
                    [isQuestion |-> FALSE, caption |-> Marked(<<"a">>),
                     image |-> <<"i1">>]>>
           /\ Decode(dataToSave[g][1]).colorStyle = "muted"
    /\ load = "rdone"

\* C12: the record a generation hands to put carries the theme, ratio and color style
\* that were selected when the generation began its session (lines 193-217).
C12_SettingsCapturedAtBegin ==
    \A g \in Gens :
        pc[g] = "putting" =>
            /\ dataToSave[g][1].theme = begun[g][1].theme
            /\ dataToSave[g][1].ratio = begun[g][1].ratio
            /\ dataToSave[g][1].colorStyle = begun[g][1].colorStyle

\* A generate() that is past its await of clearDataFromDB (line 191).
Cleared(g) == pc[g] \in {"request", "stream", "encoding", "putting", "done"}

\* C13: a generation gets past line 191 only in the step in which its own
\* clearDataFromDB completes, which empties the store and happens before it has
\* consumed anything; and only a generation past line 191 consumes a fragment.
C13_ClearBeforeConsume ==
    [][\A g \in Gens :
           /\ (~Cleared(g) /\ Cleared(g)') =>
                  /\ pc[g] = "clearing"
                  /\ Turn(g)
                  /\ dbq' = Tail(dbq)
                  /\ store' = <<>>
                  /\ consumed'[g] = <<>>
           /\ consumed'[g] # consumed[g] => (Cleared(g) /\ pc[g] = "stream")
           /\ consumed[g] # <<>> => Cleared(g)]_vars

\* A generation has consumed a fragment, on a page whose store held a record.
C13_Witness ==
    \E g \in Gens : pc[g] = "stream" /\ Len(consumed[g]) = 1 /\ modelOutput # <<>>
                     /\ selectedTheme = "robots" /\ store = <<>>

\* An IndexedDB request of p is outstanding.
Pending(p) == \E i \in 1 .. Len(dbq) : dbq[i] = p

\* C14: a generate() that has returned has no store request outstanding; one whose
\* session is persistable at the end of its stream goes on to save it; and one that
\* has handed its record to put returns, and re-enables the input, only in the step
\* in which that put completes (the record is in the store) or fails (the store is
\* as it was).
C14_DoneAfterPut ==
    [][\A g \in Gens :
           /\ pc[g] \in {"done", "rejected"} => ~Pending(g)
           /\ (pc[g] = "stream" /\ pc'[g] = "done" /\ ~caught'[g]) =>
                  ~isPersistable(slideshow')
           /\ pc[g] = "putting" => Pending(g)
           /\ (pc[g] = "putting" /\ pc'[g] # "putting") =>
                  /\ pc'[g] = "done"
                  /\ Turn(g)
                  /\ ~Pending(g)'
                  /\ store' = dataToSave[g] \/ store' = store
                  /\ ~userInput'.disabled
                  /\ ~generateBtn'.disabled]_vars

\* A generation is done with its record in the store and the input enabled again.
C14_Witness ==
    \E g \in Gens :
        /\ pc[g] = "done"
        /\ store # <<>>
        /\ store[1].question = message[g]
        /\ store[1].slides[1].text = QuestionSlide(message[g]).caption
        /\ ~userInput.disabled
        /\ ~Pending(g)

\* The page shows no session: the state the module's top level sets up.
DefaultEmptyState ==
    /\ selectedTheme = "cats"
    /\ selectedRatio = "1-1"
    /\ selectedColorStyle = "bw"
    /\ slideshow = <<>>
    /\ actionsContainer.hidden

\* C15: when a restore that found no record or caught an error returns, with no
\* click on a selector and no generate() call so far, the store is empty and the
\* page is in its default empty state.
C15_FailedRestoreLeavesDefaults ==
    [][(/\ RestoreEnds
        /\ load' = "rdone"
        /\ caughtIn' # "none" \/ store = <<>>
        /\ selects' = 0
        /\ \A g \in Gens : pc'[g] = "idle") =>
           (store' = <<>> /\ DefaultEmptyState')]_vars

\* loadSlideshowFromStorage() has been called and has not returned or thrown.
Restoring == load \in {"loading", "rclearing"}

\* C16: while the restore is running no click on a selector takes effect and no
\* generate() begins.
C16_RestoreBeforeInteraction ==
    [][Restoring =>
           /\ selects' = selects
           /\ \A g \in Gens : pc[g] = "idle" => pc'[g] = "idle"]_vars

\* C17: #actions-container is shown only while #slideshow holds more than one slide,
\* it is shown by a restore or by the end of a stream only, and the step in which a
\* generation begins its session hides it.
C17_ActionsOnlyWhenPersistable ==
    [][/\ ~actionsContainer.hidden => Len(slideshow) > 1
       /\ (actionsContainer.hidden /\ ~actionsContainer'.hidden) =>
              /\ Len(slideshow') > 1
              /\ \/ load = "loading" /\ load' = "rdone"
                 \/ \E g \in Gens : pc[g] = "stream" /\ pc'[g] # "stream"
       /\ \A g \in Gens :
              (pc[g] = "clearing" /\ pc'[g] = "request") => actionsContainer'.hidden]_vars

\* A generation begins its session on a page that shows a restored session.
C17_Witness ==
    /\ load = "rdone"
    /\ caughtIn = "none"
    /\ \E g \in Gens : pc[g] = "request"
    /\ actionsContainer.hidden
    /\ Len(slideshow) = 1
    /\ modelOutput # <<Marked(<<"p">>)>>
    /\ selectedTheme = "robots"
    /\ selectedRatio = "9-16"
    /\ selectedColorStyle = "muted"
    /\ selects = 0

\* The records a put may be handed: the one of an earlier page load and those the
\* generations of this page load are putting.
PutRecords == {PriorRecord} \cup {dataToSave[g][1] : g \in {h \in Gens : pc[h] = "putting"}}

\* C18: on every database the page reaches, the never-created one included, a
\* completed clear leaves an existing, empty store and a second clear changes
\* nothing; a completed put leaves exactly its record in the slot, whatever was
\* there, and a second put of the same record changes nothing; a completed get
\* leaves the slot as it was and a second get changes nothing.  Every step of the
\* page that changes the database is one of these three.
C18_StoreIdempotent ==
    [][/\ ~dbCreated => store = <<>>
       /\ clearDataFromDB(DB) = Database(TRUE, <<>>)
       /\ clearDataFromDB(clearDataFromDB(DB)) = clearDataFromDB(DB)
       /\ \A r \in PutRecords :
              /\ saveDataToDB(DB, r) = Database(TRUE, <<r>>)
              /\ saveDataToDB(saveDataToDB(DB, r), r) = saveDataToDB(DB, r)
       /\ loadDataFromDB(DB) = Database(TRUE, store)
       /\ loadDataFromDB(loadDataFromDB(DB)) = loadDataFromDB(DB)
       /\ DB' # DB =>
              \/ DB' = loadDataFromDB(DB)
              \/ DB' = clearDataFromDB(DB)
              \/ \E g \in Gens : pc[g] = "putting" /\ Turn(g)
                                    /\ DB' = saveDataToDB(DB, dataToSave[g][1])
       /\ (load = "rclearing" /\ load' = "rdone") => DB' = Database(TRUE, <<>>)
       /\ \A g \in Gens :
              (pc[g] = "clearing" /\ pc'[g] = "request") => DB' = Database(TRUE, <<>>)]_vars

\* The restore's get failed, its clear completed, and the clear of a generation
\* completed after it: two clears in a row.
C18_Witness ==
    /\ load = "rdone"
    /\ caughtIn = "get"
    /\ clears = 1
    /\ \E g \in Gens : pc[g] = "request"
    /\ DB = Database(TRUE, <<>>)

\* A fragment with neither text nor an image payload, and a fragment sequence
\* without such fragments.
IsMalformed(f) == f.text = <<>> /\ f.data = <<>>

WellFormed(fs) == SelectSeq(fs, LAMBDA f : ~IsMalformed(f))

\* C19: the step that consumes a fragment with neither text nor image data puts no
\* slide on the page, leaves text and img as they were, and leaves the generation
\* in its loop with no error shown; and the slides emitted, during the stream and
\* after its flush, are those the pairing rule gives for the fragments consumed
\* with the malformed ones left out.
C19_MalformedFragmentIgnored ==
    [][\A g \in Gens :
           /\ (consumed'[g] # consumed[g] /\ IsMalformed(consumed'[g][Len(consumed'[g])])) =>
                  /\ emitted'[g] = emitted[g]
                  /\ slideshow' = slideshow
                  /\ text'[g] = text[g]
                  /\ img'[g] = img[g]
                  /\ pc'[g] = "stream"
                  /\ ~caught'[g]
                  /\ error' = error
           /\ pc[g] = "stream" =>
                  /\ emitted[g] = Paired(WellFormed(consumed[g])).slides
                  /\ text[g] = Paired(WellFormed(consumed[g])).caption
                  /\ img[g] = Paired(WellFormed(consumed[g])).image
           /\ Flushed(g) =>
                  LET p == Paired(WellFormed(consumed[g]))
                  IN  emitted[g] = p.slides \o (IF p.image # NoImg
                                                 THEN <<[text |-> <<>>, img |-> p.image]>>
                                                 ELSE <<>>)]_vars

\* A malformed fragment arrived between a caption and its image, and the pair was
\* completed all the same.
C19_Witness ==
    /\ pc[1] = "stream"
    /\ consumed[1] = <<TextPart(<<"a">>), EmptyPart, ImagePart(<<"i1">>)>>
    /\ emitted[1] = <<[text |-> <<"a">>, img |-> DataUrl(<<"i1">>)]>>
    /\ Len(slideshow) = 2

\* C20: a generation hands a record to put only in a step after its last fragment,
\* coming from its stream's end with the flush done; from then on it consumes
\* nothing and emits nothing; it has no record to put, and no request of its own
\* outstanding, while it is in its loop; and once it has returned it never runs
\* again, so it puts at most once.  A record enters the store only by the put of a
\* generation that handed it over.
C20_PersistOnceAfterStream ==
    [][/\ \A g \in Gens :
              /\ (pc[g] # "putting" /\ pc'[g] = "putting") =>
                     /\ pc[g] \in {"stream", "encoding"}
                     /\ ~Pending(g)
                     /\ Pending(g)'
                     /\ dataToSave'[g] # <<>>
              /\ (pc[g] = "stream" /\ pc'[g] \in {"encoding", "putting"}) =>
                     /\ consumed'[g] = consumed[g]
                     /\ LET p == Paired(consumed[g])
                        IN  emitted'[g] =
                                p.slides \o (IF p.image # NoImg
                                             THEN <<[text |-> <<>>, img |-> p.image]>>
                                             ELSE <<>>)
              /\ pc[g] \in {"encoding", "putting", "done"} =>
                     /\ consumed'[g] = consumed[g]
                     /\ emitted'[g] = emitted[g]
                     /\ pc'[g] \in {"encoding", "putting", "done"}
              /\ pc[g] \in {"putting", "done"} => pc'[g] \in {"putting", "done"}
              /\ pc[g] = "done" => (pc'[g] = "done" /\ ~Pending(g)')
              /\ pc[g] \in {"request", "stream"} => (dataToSave[g] = <<>> /\ ~Pending(g))
       /\ (store' # store /\ store' # <<>>) =>
              \E g \in Gens : /\ pc[g] = "putting"
                               /\ pc'[g] = "done"
                               /\ store' = dataToSave[g]]_vars

\* A generation has consumed two fragments, its stream has ended and its one put
\* is outstanding.
C20_Witness ==
    \E g \in Gens :
        /\ pc[g] = "putting"
        /\ Pending(g)
        /\ consumed[g] = <<ImagePart(<<"i1">>), TextPart(<<"a">>)>>
        /\ Len(emitted[g]) = 1
        /\ store = <<>>

\* ------------------------------------------------------------------ C21
\* A slide list with exactly one question slide, at its first position.
QuestionFirst(sl) ==
    /\ sl # <<>>
    /\ sl[1].isQuestion
    /\ \A i \in 2 .. Len(sl) : ~sl[i].isQuestion

\* C21: whenever #slideshow is non-empty it holds exactly one question slide, and
\* that slide is the first one, however the generations and the restore interleave;
\* the same holds of the snapshot saveSlideshowToStorage took, of every record it
\* hands to saveDataToDB, and of the record in the store.
C21_OneQuestionFirst ==
    /\ slideshow # <<>> => QuestionFirst(slideshow)
    /\ \A g \in Gens :
          /\ slides[g] # <<>> => QuestionFirst(slides[g])
          /\ dataToSave[g] # <<>> => QuestionFirst(dataToSave[g][1].slides)
    /\ store # <<>> => QuestionFirst(store[1].slides)

\* The second generation cleared the slideshow while the first was in flight, the
\* first then appended a slide to it, and the second hands the result to saveDataToDB.
C21_Witness ==
    /\ pc[2] = "putting"
    /\ consumed[2] = <<>>
    /\ emitted[1] # <<>>
    /\ slideshow[1] = QuestionSlide(message[2])
    /\ Len(dataToSave[2][1].slides) = 2

\* ------------------------------------------------------------------ C22
\* An answer slide of the page, and one of a record, with a caption or an image.
HasContent(slide) == slide.caption # <<>> \/ slide.img # NoImg

StoredHasContent(sd) == sd.text # <<>> \/ sd.imageBlob # <<>>

AnswersHaveContent(record) ==
    \A i \in 1 .. Len(record.slides) :
        ~record.slides[i].isQuestion => StoredHasContent(record.slides[i])

\* C22: every slide addSlide was called for, and every answer slide in #slideshow, has
\* a non-empty caption or an image; so has every answer slide of a record handed to
\* saveDataToDB and of the record in the store.
C22_AnswerHasContent ==
    /\ \A g \in Gens : \A i \in 1 .. Len(emitted[g]) :
          HasContent(addSlide(emitted[g][i].text, emitted[g][i].img))
    /\ \A i \in 1 .. Len(slideshow) : ~slideshow[i].isQuestion => HasContent(slideshow[i])
    /\ \A g \in Gens : dataToSave[g] # <<>> => AnswersHaveContent(dataToSave[g][1])
    /\ store # <<>> => AnswersHaveContent(store[1])

\* The record a generation stored holds an answer slide without a caption: the flush
\* emitted a pending image on its own.
C22_Witness ==
    /\ store # <<>>
    /\ \E g \in Gens : pc[g] = "done" /\ store[1].question = message[g]
    /\ \E i \in 1 .. Len(store[1].slides) :
          /\ ~store[1].slides[i].isQuestion
          /\ store[1].slides[i].text = <<>>
          /\ store[1].slides[i].imageBlob # <<>>

\* ------------------------------------------------------------------ C23
\* generate's locals between two parts: a caption and an image both pending.
BothPending(g) == text[g] # <<>> /\ img[g] # NoImg

\* The step in which the stream of g ended and its flush called addSlide.
FlushEmits(g) == pc[g] = "stream" /\ pc'[g] # "stream" /\ emitted'[g] # emitted[g]

\* C23: once a part has been processed, text and img are never both pending; and
\* the slide the end-of-stream flush appends has an empty caption.
C23_AccumulatorInvariant ==
    /\ [](\A g \in Gens : ~BothPending(g))
    /\ [][\A g \in Gens :
            FlushEmits(g) =>
                /\ Len(emitted'[g]) = Len(emitted[g]) + 1
                /\ emitted'[g][Len(emitted'[g])].text = <<>>
                /\ emitted'[g][Len(emitted'[g])].img # NoImg
                /\ slideshow'[Len(slideshow')].caption = <<>>]_vars

\* A caption and an image made a slide, a further image stayed pending and the
\* flush emitted it without a caption.
C23_Witness ==
    \E g \in Gens :
        /\ pc[g] \in {"encoding", "putting"}
        /\ Len(consumed[g]) = 3
        /\ Len(emitted[g]) = 2
        /\ emitted[g][1].text # <<>>
        /\ emitted[g][2].text = <<>>
        /\ slideshow[Len(slideshow)].caption = <<>>

\* ------------------------------------------------------------------ C24
\* generate() runs its last statements (lines 273-275) and returns.
Finishes(g) == pc[g] # "done" /\ pc'[g] = "done"

\* C24: a generation that has disabled the input (it is past line 194) eventually
\* returns, on the success path and on the failure path alike; it enables #input and
\* #generate-btn as it returns; and the input never stays disabled for ever.
C24_InputReenabled ==
    /\ \A g \in Gens : InFlight(g) ~> (pc[g] = "done")
    /\ [][\A g \in Gens :
            Finishes(g) => (~userInput'.disabled /\ ~generateBtn'.disabled)]_vars
    /\ (userInput.disabled \/ generateBtn.disabled)
           ~> (~userInput.disabled /\ ~generateBtn.disabled)

\* A generation disabled the input, its stream failed after a part had arrived, and
\* it has returned from its catch block with the input enabled.
C24_Witness ==
    \E g \in Gens :
        /\ pc[g] = "done"
        /\ caught[g]
        /\ consumed[g] # <<>>
        /\ ~error.hidden
        /\ ~userInput.disabled
        /\ ~generateBtn.disabled

====
